---- MODULE Spec2Model ----
(***************************************************************************)
(* The persistence layer of sqlalchemy-learning: the six mapped tables of  *)
(* src/src/models.py (students, emails, teachers, classes, student_clazz,  *)
(* teacher_clazz) with the constraints the mapping declares, and the write *)
(* paths of src/src/01_base_crud.py (statement-level insert/update/delete  *)
(* and the ORM unit-of-work update/delete).                                *)
(*                                                                         *)
(* The store enforces exactly what models.py declares on the Table:        *)
(* column-level primary keys, NOT NULL, ForeignKey(... ondelete=...).      *)
(* A mapper-level primary key (__mapper_args__) is no table constraint.    *)
(* Each SQL statement is atomic (InnoDB); now() has the resolution of the  *)
(* TIMESTAMP column, modelled as the integer `clock`.                      *)
(***************************************************************************)
EXTENDS Integers, Sequences, FiniteSets, TLC

VARIABLES
    students,       \* id -> row, for the ids present in table students
    emails,         \* <<email, student_id>> -> number of such rows
    teachers,       \* set of ids present in table teachers
    classes,        \* set of ids present in table classes
    student_clazz,  \* student_id -> class_id, for the student_ids present
    teacher_clazz,  \* <<teacher_id, class_id>> -> number of such rows
    next_id,        \* AUTO_INCREMENT counters of students, teachers, classes
    clock,          \* the value now() returns
    sessions,       \* ORM sessions: identity map of the one loaded Student
    hist,           \* history: id -> the updated_at values the row has had
    wcount,         \* history: id -> number of writes to the row
    last            \* history: the operation just executed and its outcome

vars == <<students, emails, teachers, classes, student_clazz, teacher_clazz,
          next_id, clock, sessions, hist, wcount, last>>

tables == <<students, emails, teachers, classes, student_clazz, teacher_clazz>>

----------------------------------------------------------------------------
(* Bounds of the model.                                                    *)

MaxDup == 2         \* copies of one tuple kept in a table without a key
MaxClock == 2       \* ticks of now()
MaxWrites == 3      \* updates recorded per row

\* The ids AUTO_INCREMENT hands out, per table.
StudentIds == 1..2
ClazzIds == 1..2
TeacherIds == 1..1
EmailAddrs == {"a@x.com"}
Sessions == {"s1", "s2"}
Names == {"n0", "n1"}
Scores == {80, 90}

EmailKeys == EmailAddrs \X StudentIds
TeacherClazzKeys == TeacherIds \X ClazzIds

----------------------------------------------------------------------------
(* models.py: Gender and the Enum column type of Student.gender.           *)

\* A Python value submitted for gender: t is its type, v its text.
GenderMembers == {[t |-> "Gender", v |-> "MALE"], [t |-> "Gender", v |-> "FEMALE"]}

\* class Gender(enum.Enum): member name -> value
Gender(name) == IF name = "MALE" THEN "male" ELSE "female"

\* values_callable=lambda x: [i.value for i in x]
GenderValues == {Gender(m.v) : m \in GenderMembers}

GenderInputs ==
    GenderMembers \cup
    {[t |-> "str", v |-> "male"], [t |-> "str", v |-> "female"],
     [t |-> "str", v |-> "MALE"], [t |-> "int", v |-> "1"], [t |-> "int", v |-> "2"]}

\* Enum._db_value_for_elem with validate_strings left at its default (False):
\* a member or one of the declared values maps to the declared value; any
\* other str passes through unchanged; any other object raises LookupError.
LookupError == "LookupError"
gender_enum(elem) ==
    IF elem \in GenderMembers THEN Gender(elem.v)
    ELSE IF elem.t = "str" /\ elem.v \in GenderValues THEN elem.v
    ELSE IF elem.t = "str" THEN elem.v
    ELSE LookupError

----------------------------------------------------------------------------
(* models.py: the foreign keys and keys the tables declare.                *)

\* The ondelete of each ForeignKey ("NONE": a column without a ForeignKey).
Email_student_id_NoForeignKey == "NONE"
Email_student_id == "CASCADE"
StudentClazz_student_id == "CASCADE"
StudentClazz_class_id_Cascade == "CASCADE"
StudentClazz_class_id == "RESTRICT"
TeacherClazz_teacher_id == "RESTRICT"
TeacherClazz_class_id_Restrict == "RESTRICT"
TeacherClazz_class_id == "CASCADE"

\* __mapper_args__ = {"primary_key": [...]} configures the mapper only: the
\* Table gets no PRIMARY KEY or UNIQUE constraint from it.
Email_table_key == FALSE
TeacherClazz_table_key == FALSE
\* student_clazz: primary_key=True on student_id; class_id is a plain column.
StudentClazz_class_id_unique == FALSE

----------------------------------------------------------------------------
(* The outcomes an operation reports.  The names are those of the error    *)
(* taxonomy; the SQLAlchemy exception behind each is given.                *)

Ok == "ok"
ShapeError == "ShapeError"            \* StatementError(LookupError), NOT NULL
UniquenessError == "UniquenessError"  \* IntegrityError: duplicate key
ConflictError == "ConflictError"      \* orm.exc.StaleDataError
ReferentialIntegrityError == "ReferentialIntegrityError"  \* IntegrityError: FK
FlushError == "FlushError"            \* the unit of work could not flush
NoRow == "NoRow"                      \* result.scalar() returned None

Report(op, path, key, key2, res, rows, pred, stale) ==
    [op |-> op, path |-> path, key |-> key, key2 |-> key2, res |-> res,
     rows |-> rows, pred |-> pred, stale |-> stale]

NoStudent == [name |-> "", gender |-> "", address |-> "", score |-> 0,
              is_active |-> "", updated_at |-> -1]

\* A session: pc is where its test function stands; row is the Student its
\* identity map holds (row.updated_at the version it will put in WHERE).
\* seen, res, at and p are history: the row's write count when it was read
\* and when the flush ran, the outcome, and the patch the flush carried.
NoPatch == [f |-> "none", name |-> "", score |-> 0, gender |-> [t |-> "str", v |-> ""]]
DeleteMark == [NoPatch EXCEPT !.f = "delete"]

IdleSession == [pc |-> "idle", id |-> 0, row |-> NoStudent, seen |-> 0,
                res |-> "none", at |-> 0, p |-> NoPatch]

----------------------------------------------------------------------------
(* Rows that reference a parent.                                           *)

HasEmails(sid) == \E k \in EmailKeys : k[2] = sid /\ emails[k] > 0
HasStudentClazz(sid) == sid \in DOMAIN student_clazz
ClazzHasStudents(cid) == \E s \in DOMAIN student_clazz : student_clazz[s] = cid
ClazzHasTeachers(cid) == \E k \in TeacherClazzKeys : k[2] = cid /\ teacher_clazz[k] > 0
TeacherHasClazz(tid) == \E k \in TeacherClazzKeys : k[1] = tid /\ teacher_clazz[k] > 0

\* ForeignKey(parent): the referenced row must exist when a row is written.
ForeignKeyHolds(policy, parents, v) == policy = "NONE" \/ v \in parents

\* ondelete="RESTRICT": the parent's DELETE fails while a row references it.
Restricts(policy, referenced) == policy = "RESTRICT" /\ referenced

Without(f, k) == [x \in DOMAIN f \ {k} |-> f[x]]

----------------------------------------------------------------------------
(* students: Student.updated_at, server_default=func.now(),                *)
(* onupdate=func.now(); version_id_col with version_id_generator False.    *)

NewStudent(name, g, score, act) ==
    [name |-> name, gender |-> g, address |-> "Tokyo", score |-> score,
     is_active |-> act, updated_at |-> clock]

\* Patch of one column, as `.values(name=...)` or `student.name = ...`.
Patches ==
    [f : {"name"}, name : Names, score : {0}, gender : {[t |-> "str", v |-> ""]}]
    \cup [f : {"score"}, name : {""}, score : Scores, gender : {[t |-> "str", v |-> ""]}]
    \cup [f : {"gender"}, name : {""}, score : {0}, gender : GenderInputs]

PatchValue(row, p) ==
    IF p.f = "name" THEN [row EXCEPT !.name = p.name]
    ELSE IF p.f = "score" THEN [row EXCEPT !.score = p.score]
    ELSE [row EXCEPT !.gender = gender_enum(p.gender)]

PatchRejected(p) == p.f = "gender" /\ gender_enum(p.gender) = LookupError

\* SET <patch>, updated_at = now()
Updated(row, p) == [PatchValue(row, p) EXCEPT !.updated_at = clock]

Changes(row, p) == PatchValue(row, p) # row

\* DELETE FROM students: what the foreign keys of emails and student_clazz do.
StudentDeleteBlocked(sid) ==
    \/ Restricts(Email_student_id, HasEmails(sid))
    \/ Restricts(StudentClazz_student_id, HasStudentClazz(sid))

EmailsAfterStudentDelete(sid) ==
    IF Email_student_id = "CASCADE"
    THEN [k \in EmailKeys |-> IF k[2] = sid THEN 0 ELSE emails[k]]
    ELSE emails

StudentClazzAfterStudentDelete(sid) ==
    IF StudentClazz_student_id = "CASCADE" /\ sid \in DOMAIN student_clazz
    THEN Without(student_clazz, sid)
    ELSE student_clazz

NoteWrite(id) == wcount' = [wcount EXCEPT ![id] = @ + 1]

----------------------------------------------------------------------------
(* 01_base_crud.py: the write paths of Student.                            *)

\* test_insert / test_insert_with_orm: insert(Student).values(...).  The id
\* is AUTO_INCREMENT and updated_at the server default now().  gender goes
\* through the Enum bind processor; is_active is NOT NULL without a default,
\* so omitting it is rejected (strict SQL mode).
test_insert(name, g, score, act) ==
    /\ next_id.students \in StudentIds
    /\ LET id == next_id.students
           v == gender_enum(g)
       IN IF v = LookupError \/ act = "omitted"
          THEN /\ last' = Report("insert", "stmt", 0, 0, ShapeError, 0, {}, FALSE)
               /\ UNCHANGED <<students, next_id, hist, wcount>>
          ELSE /\ students' = (id :> NewStudent(name, v, score, act)) @@ students
               /\ next_id' = [next_id EXCEPT !.students = id + 1]
               /\ hist' = [hist EXCEPT ![id] = <<clock>>]
               /\ NoteWrite(id)
               /\ last' = Report("insert", "stmt", id, 0, Ok, 1, {}, FALSE)
    /\ UNCHANGED <<emails, teachers, classes, student_clazz, teacher_clazz,
                   clock, sessions>>

\* test_update: update(Student).values(...).where(Student.id == id).
test_update(id, p) ==
    /\ Len(hist[id]) <= MaxWrites
    /\ IF PatchRejected(p)
       THEN /\ last' = Report("update", "stmt", id, 0, ShapeError, 0, {"id"},
                              id \notin DOMAIN students)
            /\ UNCHANGED <<students, hist, wcount>>
       ELSE IF id \in DOMAIN students
       THEN /\ students' = [students EXCEPT ![id] = Updated(@, p)]
            /\ hist' = [hist EXCEPT ![id] = Append(@, clock)]
            /\ NoteWrite(id)
            /\ last' = Report("update", "stmt", id, 0, Ok, 1, {"id"}, FALSE)
       ELSE /\ last' = Report("update", "stmt", id, 0, Ok, 0, {"id"}, TRUE)
            /\ UNCHANGED <<students, hist, wcount>>
    /\ UNCHANGED <<emails, teachers, classes, student_clazz, teacher_clazz,
                   next_id, clock, sessions>>

\* select(Student).where(Student.id == id); result.scalar(): the first half
\* of test_update_with_orm and of test_delete_with_orm.
select_student(s, id) ==
    /\ sessions[s].pc # "loaded"
    /\ IF id \in DOMAIN students
       THEN /\ sessions' = [sessions EXCEPT ![s] =
                   [IdleSession EXCEPT !.pc = "loaded", !.id = id,
                        !.row = students[id], !.seen = wcount[id]]]
            /\ last' = Report("select", "orm", id, 0, Ok, 1, {"id"}, FALSE)
       ELSE /\ sessions' = [sessions EXCEPT ![s] = IdleSession]
            /\ last' = Report("select", "orm", id, 0, NoRow, 0, {"id"}, FALSE)
    /\ UNCHANGED <<tables, next_id, clock, hist, wcount>>

Finished(me, res, p) ==
    [me EXCEPT !.pc = "done", !.res = res, !.at = wcount[me.id], !.p = p]

VersionPredicate == {"id", "updated_at"}

\* The row the unit of work's WHERE id = ? AND updated_at = ? matches.
Matches(me) ==
    /\ me.id \in DOMAIN students
    /\ students[me.id].updated_at = me.row.updated_at

Stale(me) == me.id \notin DOMAIN students \/ wcount[me.id] # me.seen

\* test_update_with_orm: student.<column> = value; session.commit().  The
\* flush emits UPDATE students SET <column>, updated_at = now()
\* WHERE id = ? AND updated_at = ? and raises StaleDataError when no row
\* matched; an attribute set to the value it already had emits nothing.
test_update_with_orm(s, p) ==
    /\ sessions[s].pc = "loaded"
    /\ Len(hist[sessions[s].id]) <= MaxWrites
    /\ LET me == sessions[s]
           id == me.id
       IN IF PatchRejected(p)
          THEN /\ sessions' = [sessions EXCEPT ![s] = Finished(me, ShapeError, p)]
               /\ last' = Report("update", "orm", id, 0, ShapeError, 0,
                                 VersionPredicate, Stale(me))
               /\ UNCHANGED <<students, hist, wcount>>
          ELSE IF ~Changes(me.row, p)
          THEN /\ sessions' = [sessions EXCEPT ![s] = Finished(me, "unchanged", p)]
               /\ last' = Report("commit", "orm", id, 0, Ok, 0, {}, Stale(me))
               /\ UNCHANGED <<students, hist, wcount>>
          ELSE IF Matches(me)
          THEN /\ students' = [students EXCEPT ![id] = Updated(@, p)]
               /\ hist' = [hist EXCEPT ![id] = Append(@, clock)]
               /\ NoteWrite(id)
               /\ sessions' = [sessions EXCEPT ![s] = Finished(me, Ok, p)]
               /\ last' = Report("update", "orm", id, 0, Ok, 1,
                                 VersionPredicate, Stale(me))
          ELSE /\ sessions' = [sessions EXCEPT ![s] = Finished(me, ConflictError, p)]
               /\ last' = Report("update", "orm", id, 0, ConflictError, 0,
                                 VersionPredicate, Stale(me))
               /\ UNCHANGED <<students, hist, wcount>>
    /\ UNCHANGED <<emails, teachers, classes, student_clazz, teacher_clazz,
                   next_id, clock>>

\* test_delete: delete(Student).where(Student.id == id).  The store applies
\* the ondelete actions of emails.student_id and student_clazz.student_id
\* in the same statement.
test_delete(id) ==
    /\ IF id \notin DOMAIN students
       THEN /\ last' = Report("delete", "stmt", id, 0, Ok, 0, {"id"}, TRUE)
            /\ UNCHANGED <<students, emails, student_clazz, wcount>>
       ELSE IF StudentDeleteBlocked(id)
       THEN /\ last' = Report("delete", "stmt", id, 0, ReferentialIntegrityError,
                              0, {"id"}, FALSE)
            /\ UNCHANGED <<students, emails, student_clazz, wcount>>
       ELSE /\ students' = Without(students, id)
            /\ emails' = EmailsAfterStudentDelete(id)
            /\ student_clazz' = StudentClazzAfterStudentDelete(id)
            /\ NoteWrite(id)
            /\ last' = Report("delete", "stmt", id, 0, Ok, 1, {"id"}, FALSE)
    /\ UNCHANGED <<teachers, classes, teacher_clazz, next_id, clock, sessions, hist>>

\* test_delete_with_orm: session.delete(student); session.commit().
\* Student.emails and Student.clazz declare neither cascade="delete" nor
\* passive_deletes, so the flush first loads the dependents and sets their
\* student_id to NULL: a NOT NULL / primary-key column, so the flush fails
\* and the transaction rolls back (the test is marked xfail).  With no
\* dependent it emits DELETE FROM students WHERE id = ? AND updated_at = ?.
test_delete_with_orm(s) ==
    /\ sessions[s].pc = "loaded"
    /\ LET me == sessions[s]
           id == me.id
       IN IF id \in DOMAIN students /\ (HasEmails(id) \/ HasStudentClazz(id))
          THEN /\ sessions' = [sessions EXCEPT ![s] = Finished(me, FlushError, DeleteMark)]
               /\ last' = Report("delete", "orm", id, 0, FlushError, 0,
                                 VersionPredicate, Stale(me))
               /\ UNCHANGED <<students, emails, student_clazz, wcount>>
          ELSE IF Matches(me) /\ ~StudentDeleteBlocked(id)
          THEN /\ students' = Without(students, id)
               /\ emails' = EmailsAfterStudentDelete(id)
               /\ student_clazz' = StudentClazzAfterStudentDelete(id)
               /\ NoteWrite(id)
               /\ sessions' = [sessions EXCEPT ![s] = Finished(me, Ok, DeleteMark)]
               /\ last' = Report("delete", "orm", id, 0, Ok, 1,
                                 VersionPredicate, Stale(me))
          ELSE /\ sessions' = [sessions EXCEPT ![s] = Finished(me, ConflictError, DeleteMark)]
               /\ last' = Report("delete", "orm", id, 0, ConflictError, 0,
                                 VersionPredicate, Stale(me))
               /\ UNCHANGED <<students, emails, student_clazz, wcount>>
    /\ UNCHANGED <<teachers, classes, teacher_clazz, next_id, clock, hist>>

\* Time passes: now() returns the next value of the TIMESTAMP's resolution.
Tick ==
    /\ clock < MaxClock
    /\ clock' = clock + 1
    /\ last' = Report("tick", "clock", 0, 0, Ok, 0, {}, FALSE)
    /\ UNCHANGED <<tables, next_id, sessions, hist, wcount>>

----------------------------------------------------------------------------
(* Statements on the other five tables, as the store executes them under   *)
(* the constraints models.py declares.                                     *)

\* INSERT INTO emails (email, student_id)
insert_Email(e, sid) ==
    /\ emails[<<e, sid>>] < MaxDup
    /\ IF ~ForeignKeyHolds(Email_student_id, DOMAIN students, sid)
       THEN /\ last' = Report("insert_Email", "stmt", sid, 0,
                              ReferentialIntegrityError, 0, {}, FALSE)
            /\ UNCHANGED emails
       ELSE IF Email_table_key /\ emails[<<e, sid>>] > 0
       THEN /\ last' = Report("insert_Email", "stmt", sid, 0, UniquenessError,
                              0, {}, FALSE)
            /\ UNCHANGED emails
       ELSE /\ emails' = [emails EXCEPT ![<<e, sid>>] = @ + 1]
            /\ last' = Report("insert_Email", "stmt", sid, 0, Ok, 1, {}, FALSE)
    /\ UNCHANGED <<students, teachers, classes, student_clazz, teacher_clazz,
                   next_id, clock, sessions, hist, wcount>>

\* DELETE FROM emails WHERE email = e AND student_id = sid
delete_Email(e, sid) ==
    /\ emails' = [emails EXCEPT ![<<e, sid>>] = 0]
    /\ last' = Report("delete_Email", "stmt", sid, 0, Ok, emails[<<e, sid>>],
                      {"email", "student_id"}, FALSE)
    /\ UNCHANGED <<students, teachers, classes, student_clazz, teacher_clazz,
                   next_id, clock, sessions, hist, wcount>>

\* INSERT INTO classes / teachers: the id is AUTO_INCREMENT.
insert_Clazz ==
    /\ next_id.classes \in ClazzIds
    /\ classes' = classes \cup {next_id.classes}
    /\ next_id' = [next_id EXCEPT !.classes = @ + 1]
    /\ last' = Report("insert_Clazz", "stmt", next_id.classes, 0, Ok, 1, {}, FALSE)
    /\ UNCHANGED <<students, emails, teachers, student_clazz, teacher_clazz,
                   clock, sessions, hist, wcount>>

insert_Teacher ==
    /\ next_id.teachers \in TeacherIds
    /\ teachers' = teachers \cup {next_id.teachers}
    /\ next_id' = [next_id EXCEPT !.teachers = @ + 1]
    /\ last' = Report("insert_Teacher", "stmt", next_id.teachers, 0, Ok, 1, {}, FALSE)
    /\ UNCHANGED <<students, emails, classes, student_clazz, teacher_clazz,
                   clock, sessions, hist, wcount>>

\* DELETE FROM classes WHERE id = cid: student_clazz.class_id and
\* teacher_clazz.class_id reference it; one refusal undoes the statement.
ClazzDeleteBlocked(cid) ==
    \/ Restricts(StudentClazz_class_id, ClazzHasStudents(cid))
    \/ Restricts(TeacherClazz_class_id, ClazzHasTeachers(cid))

StudentClazzAfterClazzDelete(cid) ==
    IF StudentClazz_class_id = "CASCADE"
    THEN [s \in {x \in DOMAIN student_clazz : student_clazz[x] # cid} |->
              student_clazz[s]]
    ELSE student_clazz

TeacherClazzAfterClazzDelete(cid) ==
    IF TeacherClazz_class_id = "CASCADE"
    THEN [k \in TeacherClazzKeys |-> IF k[2] = cid THEN 0 ELSE teacher_clazz[k]]
    ELSE teacher_clazz

delete_Clazz(cid) ==
    /\ IF cid \notin classes
       THEN /\ last' = Report("delete_Clazz", "stmt", cid, 0, Ok, 0, {"id"}, FALSE)
            /\ UNCHANGED <<classes, student_clazz, teacher_clazz>>
       ELSE IF ClazzDeleteBlocked(cid)
       THEN /\ last' = Report("delete_Clazz", "stmt", cid, 0,
                              ReferentialIntegrityError, 0, {"id"}, FALSE)
            /\ UNCHANGED <<classes, student_clazz, teacher_clazz>>
       ELSE /\ classes' = classes \ {cid}
            /\ student_clazz' = StudentClazzAfterClazzDelete(cid)
            /\ teacher_clazz' = TeacherClazzAfterClazzDelete(cid)
            /\ last' = Report("delete_Clazz", "stmt", cid, 0, Ok, 1, {"id"}, FALSE)
    /\ UNCHANGED <<students, emails, teachers, next_id, clock, sessions, hist, wcount>>

\* DELETE FROM teachers WHERE id = tid: teacher_clazz.teacher_id references it.
TeacherDeleteBlocked(tid) == Restricts(TeacherClazz_teacher_id, TeacherHasClazz(tid))

TeacherClazzAfterTeacherDelete(tid) ==
    IF TeacherClazz_teacher_id = "CASCADE"
    THEN [k \in TeacherClazzKeys |-> IF k[1] = tid THEN 0 ELSE teacher_clazz[k]]
    ELSE teacher_clazz

delete_Teacher(tid) ==
    /\ IF tid \notin teachers
       THEN /\ last' = Report("delete_Teacher", "stmt", tid, 0, Ok, 0, {"id"}, FALSE)
            /\ UNCHANGED <<teachers, teacher_clazz>>
       ELSE IF TeacherDeleteBlocked(tid)
       THEN /\ last' = Report("delete_Teacher", "stmt", tid, 0,
                              ReferentialIntegrityError, 0, {"id"}, FALSE)
            /\ UNCHANGED <<teachers, teacher_clazz>>
       ELSE /\ teachers' = teachers \ {tid}
            /\ teacher_clazz' = TeacherClazzAfterTeacherDelete(tid)
            /\ last' = Report("delete_Teacher", "stmt", tid, 0, Ok, 1, {"id"}, FALSE)
    /\ UNCHANGED <<students, emails, classes, student_clazz, next_id, clock,
                   sessions, hist, wcount>>

\* INSERT INTO student_clazz (student_id, class_id): student_id is the
\* table's primary key; class_id carries no key or unique constraint.
insert_StudentClazz(sid, cid) ==
    /\ IF \/ ~ForeignKeyHolds(StudentClazz_student_id, DOMAIN students, sid)
          \/ ~ForeignKeyHolds(StudentClazz_class_id, classes, cid)
       THEN /\ last' = Report("insert_StudentClazz", "stmt", sid, cid,
                              ReferentialIntegrityError, 0, {}, FALSE)
            /\ UNCHANGED student_clazz
       ELSE IF \/ sid \in DOMAIN student_clazz
               \/ StudentClazz_class_id_unique /\ ClazzHasStudents(cid)
       THEN /\ last' = Report("insert_StudentClazz", "stmt", sid, cid,
                              UniquenessError, 0, {}, FALSE)
            /\ UNCHANGED student_clazz
       ELSE /\ student_clazz' = (sid :> cid) @@ student_clazz
            /\ last' = Report("insert_StudentClazz", "stmt", sid, cid, Ok, 1, {}, FALSE)
    /\ UNCHANGED <<students, emails, teachers, classes, teacher_clazz, next_id,
                   clock, sessions, hist, wcount>>

\* UPDATE student_clazz SET class_id = cid WHERE student_id = sid
update_StudentClazz(sid, cid) ==
    /\ IF sid \notin DOMAIN student_clazz
       THEN /\ last' = Report("update_StudentClazz", "stmt", sid, cid, Ok, 0,
                              {"student_id"}, FALSE)
            /\ UNCHANGED student_clazz
       ELSE IF ~ForeignKeyHolds(StudentClazz_class_id, classes, cid)
       THEN /\ last' = Report("update_StudentClazz", "stmt", sid, cid,
                              ReferentialIntegrityError, 0, {"student_id"}, FALSE)
            /\ UNCHANGED student_clazz
       ELSE IF /\ StudentClazz_class_id_unique
               /\ \E s \in DOMAIN student_clazz : s # sid /\ student_clazz[s] = cid
       THEN /\ last' = Report("update_StudentClazz", "stmt", sid, cid,
                              UniquenessError, 0, {"student_id"}, FALSE)
            /\ UNCHANGED student_clazz
       ELSE /\ student_clazz' = [student_clazz EXCEPT ![sid] = cid]
            /\ last' = Report("update_StudentClazz", "stmt", sid, cid, Ok, 1,
                              {"student_id"}, FALSE)
    /\ UNCHANGED <<students, emails, teachers, classes, teacher_clazz, next_id,
                   clock, sessions, hist, wcount>>

\* DELETE FROM student_clazz WHERE student_id = sid
delete_StudentClazz(sid) ==
    /\ student_clazz' = IF sid \in DOMAIN student_clazz
                        THEN Without(student_clazz, sid) ELSE student_clazz
    /\ last' = Report("delete_StudentClazz", "stmt", sid, 0, Ok,
                      IF sid \in DOMAIN student_clazz THEN 1 ELSE 0,
                      {"student_id"}, FALSE)
    /\ UNCHANGED <<students, emails, teachers, classes, teacher_clazz, next_id,
                   clock, sessions, hist, wcount>>

\* INSERT INTO teacher_clazz (teacher_id, class_id)
insert_TeacherClazz(tid, cid) ==
    /\ teacher_clazz[<<tid, cid>>] < MaxDup
    /\ IF \/ ~ForeignKeyHolds(TeacherClazz_teacher_id, teachers, tid)
          \/ ~ForeignKeyHolds(TeacherClazz_class_id, classes, cid)
       THEN /\ last' = Report("insert_TeacherClazz", "stmt", tid, cid,
                              ReferentialIntegrityError, 0, {}, FALSE)
            /\ UNCHANGED teacher_clazz
       ELSE IF TeacherClazz_table_key /\ teacher_clazz[<<tid, cid>>] > 0
       THEN /\ last' = Report("insert_TeacherClazz", "stmt", tid, cid,
                              UniquenessError, 0, {}, FALSE)
            /\ UNCHANGED teacher_clazz
       ELSE /\ teacher_clazz' = [teacher_clazz EXCEPT ![<<tid, cid>>] = @ + 1]
            /\ last' = Report("insert_TeacherClazz", "stmt", tid, cid, Ok, 1, {}, FALSE)
    /\ UNCHANGED <<students, emails, teachers, classes, student_clazz, next_id,
                   clock, sessions, hist, wcount>>

\* DELETE FROM teacher_clazz WHERE teacher_id = tid AND class_id = cid
delete_TeacherClazz(tid, cid) ==
    /\ teacher_clazz' = [teacher_clazz EXCEPT ![<<tid, cid>>] = 0]
    /\ last' = Report("delete_TeacherClazz", "stmt", tid, cid, Ok,
                      teacher_clazz[<<tid, cid>>], {"teacher_id", "class_id"}, FALSE)
    /\ UNCHANGED <<students, emails, teachers, classes, student_clazz, next_id,
                   clock, sessions, hist, wcount>>

----------------------------------------------------------------------------
(* Specifications.                                                         *)

Init ==
    /\ students = <<>>
    /\ emails = [k \in EmailKeys |-> 0]
    /\ teachers = {}
    /\ classes = {}
    /\ student_clazz = <<>>
    /\ teacher_clazz = [k \in TeacherClazzKeys |-> 0]
    /\ next_id = [students |-> 1, teachers |-> 1, classes |-> 1]
    /\ clock = 0
    /\ sessions = [s \in Sessions |-> IdleSession]
    /\ hist = [i \in StudentIds |-> <<>>]
    /\ wcount = [i \in StudentIds |-> 0]
    /\ last = Report("none", "none", 0, 0, Ok, 0, {}, FALSE)

\* The six tables under inserts, updates and deletes on every write path;
\* Student rows are created with one valid set of values.
Next ==
    \/ test_insert("n0", [t |-> "str", v |-> "male"], 80, "True")
    \/ \E id \in StudentIds : test_delete(id)
    \/ \E id \in StudentIds : select_student("s1", id)
    \/ test_delete_with_orm("s1")
    \/ \E e \in EmailAddrs, sid \in StudentIds : insert_Email(e, sid)
    \/ \E e \in EmailAddrs, sid \in StudentIds : delete_Email(e, sid)
    \/ insert_Clazz
    \/ insert_Teacher
    \/ \E cid \in ClazzIds : delete_Clazz(cid)
    \/ \E tid \in TeacherIds : delete_Teacher(tid)
    \/ \E sid \in StudentIds, cid \in ClazzIds : insert_StudentClazz(sid, cid)
    \/ \E sid \in StudentIds, cid \in ClazzIds : update_StudentClazz(sid, cid)
    \/ \E sid \in StudentIds : delete_StudentClazz(sid)
    \/ \E tid \in TeacherIds, cid \in ClazzIds : insert_TeacherClazz(tid, cid)
    \/ \E tid \in TeacherIds, cid \in ClazzIds : delete_TeacherClazz(tid, cid)

Spec == Init /\ [][Next]_vars

\* Optimistic concurrency on one Student row: a valid row, the one-column
\* patches of name and score on both update paths, two ORM sessions and the
\* clock.
VersionPatches == {p \in Patches : p.name = "n1" \/ p.score = 90}

NextVersion ==
    \/ /\ next_id.students = 1
       /\ test_insert("n0", [t |-> "str", v |-> "male"], 80, "True")
    \/ \E id \in StudentIds, p \in VersionPatches : test_update(id, p)
    \/ \E s \in Sessions, id \in StudentIds : select_student(s, id)
    \/ \E s \in Sessions, p \in VersionPatches : test_update_with_orm(s, p)
    \/ \E id \in StudentIds : test_delete(id)
    \/ \E s \in Sessions : test_delete_with_orm(s)
    \/ Tick

SpecVersion == Init /\ [][NextVersion]_vars

\* The shape of Student rows: every gender input of create and of update,
\* with and without is_active.
ShapePatches == {p \in Patches : p.f = "gender" \/ p.name = "n1"}

NextShape ==
    \/ \E g \in GenderInputs, act \in {"True", "omitted"} :
          test_insert("n0", g, 80, act)
    \/ \E id \in StudentIds, p \in ShapePatches : test_update(id, p)
    \/ \E id \in StudentIds : select_student("s1", id)
    \/ \E p \in ShapePatches : test_update_with_orm("s1", p)
    \/ \E id \in StudentIds : test_delete(id)

SpecShape == Init /\ [][NextShape]_vars

----------------------------------------------------------------------------
(* Properties.                                                             *)

\* Two sessions that read the same state of one row and whose flushes were
\* the only writes to it since.
Raced(s1, s2) ==
    LET a == sessions[s1]
        b == sessions[s2]
        oks == (IF a.res = Ok THEN 1 ELSE 0) + (IF b.res = Ok THEN 1 ELSE 0)
    IN /\ s1 # s2
       /\ a.pc = "done" /\ b.pc = "done"
       /\ a.p.f \in {"name", "score"} /\ b.p.f \in {"name", "score"}
       /\ a.res \in {Ok, ConflictError} /\ b.res \in {Ok, ConflictError}
       /\ a.id = b.id /\ a.seen = b.seen
       /\ a.id \in DOMAIN students
       /\ wcount[a.id] = a.seen + oks

ShowsPatch(row, p) == PatchValue(row, p) = row

\* C1: of two updates that read a Student row at the same version and race
\* to write it, exactly one succeeds and the other gets ConflictError, and
\* the row read afterwards never shows both patches.
C1_OneWinner ==
    \A s1, s2 \in Sessions :
        Raced(s1, s2) =>
            /\ {sessions[s1].res, sessions[s2].res} = {Ok, ConflictError}
            /\ ~(/\ sessions[s1].p.f # sessions[s2].p.f
                 /\ ShowsPatch(students[sessions[s1].id], sessions[s1].p)
                 /\ ShowsPatch(students[sessions[s1].id], sessions[s2].p))

\* C2: the version tokens a Student row has had (the one assigned on insert
\* and the one after each successful update) are pairwise different.
C2_TokensDistinct ==
    \A id \in StudentIds :
        \A i, j \in 1..Len(hist[id]) : i # j => hist[id][i] # hist[id][j]

\* C3: every update or delete of a Student row filters on both the key and
\* the held version; on a row modified or deleted since it was read it fails
\* with ConflictError and affects no row, otherwise it affects exactly one.
C3_VersionedWrites ==
    last.op \in {"update", "delete"} =>
        /\ last.pred = VersionPredicate
        /\ last.stale => last.res = ConflictError /\ last.rows = 0
        /\ ~last.stale => last.rows = 1

\* C4: deleting a Student that exists succeeds on either delete path and
\* removes its Email rows and its StudentClazz row with it; no Email or
\* StudentClazz row outlives its Student.
C4_DeleteCascades ==
    /\ (last.op = "delete" /\ ~last.stale) =>
           /\ last.res = Ok
           /\ last.key \notin DOMAIN students
    /\ \A sid \in StudentIds :
           sid \notin DOMAIN students => ~HasEmails(sid) /\ ~HasStudentClazz(sid)

\* C5: deleting a Clazz that a StudentClazz row references, or a Teacher
\* that a TeacherClazz row references, fails with ReferentialIntegrityError
\* and changes no row of any table.
C5_RestrictBlocks ==
    [][/\ \A c \in ClazzIds :
              (/\ last'.op = "delete_Clazz" /\ last'.key = c
               /\ c \in classes /\ ClazzHasStudents(c))
              => (last'.res = ReferentialIntegrityError /\ UNCHANGED tables)
       /\ \A t \in TeacherIds :
              (/\ last'.op = "delete_Teacher" /\ last'.key = t
               /\ t \in teachers /\ TeacherHasClazz(t))
              => (last'.res = ReferentialIntegrityError /\ UNCHANGED tables)]_vars

C5_Witness ==
    /\ last.op = "delete_Clazz"
    /\ last.res = ReferentialIntegrityError
    /\ last.key \in classes
    /\ ClazzHasStudents(last.key)
    /\ ~ClazzHasTeachers(last.key)

\* C6: the gender stored for every Student is "male" or "female" and every
\* stored row has its is_active; a create or update with any other gender
\* is refused.
C6_GenderShape ==
    \A id \in DOMAIN students :
        /\ students[id].gender \in GenderValues
        /\ students[id].is_active # "omitted"

\* C7: no two Email rows share (email, student_id) and no two TeacherClazz
\* rows share (teacher_id, class_id).
C7_CompositeUnique ==
    /\ \A k \in EmailKeys : emails[k] <= 1
    /\ \A k \in TeacherClazzKeys : teacher_clazz[k] <= 1

\* C8: there is at most one StudentClazz row per student_id and at most one
\* per class_id.
C8_OneToOne ==
    \A s1, s2 \in DOMAIN student_clazz :
        student_clazz[s1] = student_clazz[s2] => s1 = s2

\* C9: deleting a Clazz referenced by TeacherClazz rows and by a
\* StudentClazz row fails and removes nothing; deleting a Clazz referenced
\* only by TeacherClazz rows removes the Clazz and exactly those
\* TeacherClazz rows, and no Teacher.
C9_AllOrNothing ==
    [][\A c \in ClazzIds :
          (last'.op = "delete_Clazz" /\ last'.key = c /\ c \in classes
           /\ ClazzHasTeachers(c))
          => IF ClazzHasStudents(c)
             THEN last'.res # Ok /\ UNCHANGED tables
             ELSE /\ last'.res = Ok
                  /\ classes' = classes \ {c}
                  /\ teacher_clazz' = [k \in TeacherClazzKeys |->
                         IF k[2] = c THEN 0 ELSE teacher_clazz[k]]
                  /\ UNCHANGED <<students, emails, teachers, student_clazz>>]_vars

C9_Witness ==
    /\ last.op = "delete_Clazz"
    /\ last.res = ReferentialIntegrityError
    /\ ClazzHasTeachers(last.key)
    /\ ClazzHasStudents(last.key)

\* C10: every Email and StudentClazz row names an existing Student, every
\* StudentClazz and TeacherClazz row an existing Clazz, and every
\* TeacherClazz row an existing Teacher.
C10_NoOrphans ==
    /\ \A k \in EmailKeys : emails[k] > 0 => k[2] \in DOMAIN students
    /\ \A s \in DOMAIN student_clazz :
           s \in DOMAIN students /\ student_clazz[s] \in classes
    /\ \A k \in TeacherClazzKeys :
           teacher_clazz[k] > 0 => k[1] \in teachers /\ k[2] \in classes

C10_Witness ==
    /\ last.op = "delete"
    /\ last.res = Ok
    /\ last.rows = 1
    /\ \E k \in EmailKeys : emails[k] > 0
    /\ student_clazz # <<>>
    /\ \E k \in TeacherClazzKeys : teacher_clazz[k] > 0
    /\ next_id.students > 2

====
